---- MODULE Spec2Model ----
(***************************************************************************)
(* EduGenie: the chat-completion pipeline (two provider clients), the      *)
(* session store, the topic tracker and the Streamlit orchestrator.        *)
(*                                                                         *)
(* Text is a sequence of chunks.  A chunk is either one character (user    *)
(* input, whitespace) or a literal fragment of the source that starts and  *)
(* ends with a non-whitespace character.  Concatenation and f-strings are  *)
(* \o, "" is <<>>, and None content is folded into <<>> where the code     *)
(* only tests truthiness.                                                  *)
(***************************************************************************)
EXTENDS Integers, Sequences, FiniteSets, TLC

VARIABLES
    messages,        \* st.session_state.messages
    topic_counter,   \* st.session_state.topic_counter, in insertion order
    explain_like_10, \* st.session_state.explain_like_10
    settings,        \* get_settings(): api key and model from the environment
    run,             \* what the last script run did
    call,            \* arguments of the last get_chat_completion call
    result           \* its outcome

vars == <<messages, topic_counter, explain_like_10, settings, run, call, result>>

----------------------------------------------------------------------------
(* Text helpers: Python str operations on chunk sequences.                 *)

Range(s) == {s[i] : i \in 1..Len(s)}

Whitespace == {" ", "\t", "\n"}

RECURSIVE lstrip(_)
lstrip(s) ==
    IF s # <<>> /\ Head(s) \in Whitespace THEN lstrip(Tail(s)) ELSE s

RECURSIVE rstrip(_)
rstrip(s) ==
    IF s # <<>> /\ s[Len(s)] \in Whitespace
    THEN rstrip(SubSeq(s, 1, Len(s) - 1))
    ELSE s

\* str.strip()
strip(s) == rstrip(lstrip(s))

\* "\n".join(lines)
RECURSIVE join(_, _)
join(sep, parts) ==
    IF parts = <<>> THEN <<>>
    ELSE IF Len(parts) = 1 THEN parts[1]
    ELSE parts[1] \o sep \o join(sep, Tail(parts))

\* marker in content, for a marker that is one literal chunk
Contains(content, marker) == marker \in Range(content)

----------------------------------------------------------------------------
(* Messages and exceptions.                                                *)

Msg(role, content) == [role |-> role, content |-> content]

\* An exception object: its class, what getattr(exc, "status_code", None)
\* gives (0 for None) and str(exc).
Exc(cls, status_code, text) == [cls |-> cls, status_code |-> status_code, str |-> text]

NoExc == Exc("None", 0, <<>>)

\* isinstance(exc, ValueError): ValueError and its subclasses
IsValueError(exc) == exc.cls \in {"ValueError", "JSONDecodeError"}

\* isinstance(exc, openai.APIStatusError)
IsAPIStatusError(exc) == exc.cls \in {"APIStatusError"}

\* isinstance(exc, google.genai.errors.ClientError)
IsClientError(exc) == exc.cls \in {"ClientError"}

\* How a call of get_chat_completion ends, with what it did on the way:
\* built (a client object was constructed) and net (the requests issued).
Returned(text, built, net) ==
    [outcome |-> "return", text |-> text, exc |-> NoExc, built |-> built, net |-> net]

Raised(exc, built, net) ==
    [outcome |-> "raise", text |-> <<>>, exc |-> exc, built |-> built, net |-> net]

\* One outbound request.
Request(op, model, temperature, payload) ==
    [op |-> op, model |-> model, temperature |-> temperature, payload |-> payload]

\* What the provider does with the completion request.
RespOk(content) == [kind |-> "ok", content |-> content, exc |-> NoExc]
RespError(exc) == [kind |-> "error", content |-> <<>>, exc |-> exc]
\* A 200 response whose choices list is missing.
RespNoChoices == [kind |-> "nochoices", content |-> <<>>, exc |-> NoExc]

----------------------------------------------------------------------------
(* edugenie/openrouter_client.py                                           *)

OpenRouterQuotaNotice ==
    <<"OpenRouter free quota/rate limit reached.", " ",
      "Please try again later or choose another free model.">>

CouldNotGenerate == <<"I could not generate a response. Please try again.">>

\* except APIStatusError as exc: ... raise
\* Faulty variant: the 429 is not handled.
openrouter_except_402_only(exc, built, net) ==
    IF IsAPIStatusError(exc) /\ exc.status_code \in {402}
    THEN Returned(OpenRouterQuotaNotice, built, net)
    ELSE Raised(exc, built, net)

\* Faulty variant: every APIStatusError becomes the quota notice.
openrouter_except_swallow(exc, built, net) ==
    IF IsAPIStatusError(exc)
    THEN Returned(OpenRouterQuotaNotice, built, net)
    ELSE Raised(exc, built, net)

openrouter_except(exc, built, net) ==
    IF IsAPIStatusError(exc) /\ exc.status_code \in {402, 429}
    THEN Returned(OpenRouterQuotaNotice, built, net)
    ELSE Raised(exc, built, net)

\* content or "I could not generate a response. Please try again."
\* Faulty variant: empty content is returned as it is.
openrouter_content_raw(content) == content

openrouter_content(content) ==
    IF content # <<>> THEN content ELSE CouldNotGenerate

\* The body after the api_key check: build the client, one create() call.
\* Faulty variant: a failed create() is issued a second time.
openrouter_request_retry(api_key, model, messages_, temperature, resp) ==
    LET req == Request("chat.completions.create", model, temperature, messages_)
    IN  CASE resp.kind = "error" -> openrouter_except(resp.exc, TRUE, <<req, req>>)
          [] resp.kind = "nochoices" ->
                Raised(Exc("TypeError", 0, <<"'NoneType' object is not subscriptable">>),
                       TRUE, <<req>>)
          [] OTHER -> Returned(openrouter_content(resp.content), TRUE, <<req>>)

openrouter_request(api_key, model, messages_, temperature, resp) ==
    LET req == Request("chat.completions.create", model, temperature, messages_)
    IN  CASE resp.kind = "error" -> openrouter_except(resp.exc, TRUE, <<req>>)
          [] resp.kind = "nochoices" ->
                Raised(Exc("TypeError", 0, <<"'NoneType' object is not subscriptable">>),
                       TRUE, <<req>>)
          [] OTHER -> Returned(openrouter_content(resp.content), TRUE, <<req>>)

\* Faulty variant: the api_key is not checked before the client is built.
openrouter_unchecked(api_key, model, messages_, temperature, resp) ==
    openrouter_request(api_key, model, messages_, temperature, resp)

openrouter_get_chat_completion(api_key, model, messages_, temperature, resp) ==
    IF api_key = ""
    THEN Raised(Exc("ValueError", 0, <<"OPENROUTER_API_KEY is not set.">>), FALSE, <<>>)
    ELSE openrouter_request(api_key, model, messages_, temperature, resp)

----------------------------------------------------------------------------
(* edugenie/openai_client.py (the Gemini client)                           *)

\* The lines "Assistant: ..." / "User: ..." and the stripped system contents.
RECURSIVE gemini_system_instructions(_)
gemini_system_instructions(ms) ==
    IF ms = <<>> THEN <<>>
    ELSE LET content == strip(Head(ms).content)
             rest == gemini_system_instructions(Tail(ms))
         IN  IF content # <<>> /\ Head(ms).role = "system"
             THEN <<content>> \o rest
             ELSE rest

RECURSIVE gemini_transcript(_)
gemini_transcript(ms) ==
    IF ms = <<>> THEN <<>>
    ELSE LET content == strip(Head(ms).content)
             rest == gemini_transcript(Tail(ms))
         IN  IF content = <<>> \/ Head(ms).role = "system" THEN rest
             ELSE IF Head(ms).role = "assistant"
             THEN << <<"Assistant:", " ">> \o content >> \o rest
             ELSE << <<"User:", " ">> \o content >> \o rest

_build_gemini_prompt(ms) ==
    LET system_instructions == gemini_system_instructions(ms)
        transcript == gemini_transcript(ms)
        s1 == IF system_instructions # <<>>
              THEN << <<"System Instructions:", "\n">> \o join(<<"\n">>, system_instructions) >>
              ELSE <<>>
        s2 == IF transcript # <<>>
              THEN << <<"Conversation:", "\n">> \o join(<<"\n">>, transcript) >>
              ELSE <<>>
        prompt_sections == s1 \o s2 \o << <<"Assistant:">> >>
    IN  join(<<"\n", "\n">>, prompt_sections)

\* text = getattr(response, "text", None); text.strip() if text else ""
_extract_response_text(text) ==
    IF text # <<>> THEN strip(text) ELSE <<>>

\* name.removeprefix("models/")
removeprefix(name) ==
    IF name # <<>> /\ Head(name) = "models/" THEN Tail(name) ELSE name

preferred ==
    << <<"gemini-2.5-flash">>, <<"gemini-2.0-flash">>,
       <<"gemini-flash-latest">>, <<"gemini-pro-latest">> >>

\* listing: what client.models.list() does, [ok, models]; a failure of the
\* listing is swallowed and the requested model is kept.
_resolve_model(listing, requested_model) ==
    IF ~listing.ok THEN requested_model
    ELSE LET available ==
                 {removeprefix(m.name) : m \in
                     {x \in listing.models :
                         x.name # <<>> /\ "generateContent" \in x.supported_actions}}
             hits == {i \in 1..Len(preferred) : preferred[i] \in available}
         IN  IF requested_model \in available THEN requested_model
             ELSE IF hits # {}
             THEN preferred[CHOOSE i \in hits : \A j \in hits : i <= j]
             ELSE requested_model

\* The last user message with non-blank content, stripped ("" when none).
RECURSIVE fallback_user_query(_)
fallback_user_query(ms) ==
    IF ms = <<>> THEN <<>>
    ELSE LET last == ms[Len(ms)]
         IN  IF last.role = "user" /\ strip(last.content) # <<>>
             THEN strip(last.content)
             ELSE fallback_user_query(SubSeq(ms, 1, Len(ms) - 1))

_local_fallback_response(ms) ==
    LET simple_mode ==
            \E i \in 1..Len(ms) :
                ms[i].role = "system" /\ Contains(ms[i].content, "10-year-old")
        found == fallback_user_query(ms)
        user_query == IF found = <<>> THEN <<"your topic">> ELSE found
    IN  IF simple_mode
        THEN <<"AI service abhi unavailable hai, lekin main simple explain karta hoon.",
               "\n", "\n", "Topic: **">> \o user_query \o
             <<"**", "\n",
               "- Is topic ko ek chhote step se start karo.", "\n",
               "- Real life example socho.", "\n",
               "- 3 short points likho jo tumhe yaad rakhne hain.", "\n",
               "- End me khud ko 2 questions pucho.", "\n", "\n",
               "Tip: thodi der baad phir se try karo, API restore hone par detailed answer milega.">>
        ELSE <<"AI API currently unavailable, so here is a quick fallback study guide.",
               "\n", "\n", "Topic: **">> \o user_query \o
             <<"**", "\n",
               "1. Define the core concept in 2-3 lines.", "\n",
               "2. List key terms and formulas/points.", "\n",
               "3. Solve one basic and one medium example.", "\n",
               "4. Write a short revision note.", "\n", "\n",
               "Retry shortly for full AI-generated response.">>

\* except genai_errors.ClientError as exc: ... raise
\* Faulty variant: the 404 / NOT_FOUND branch is missing.
gemini_except_no_404(exc, ms, built, net) ==
    IF IsClientError(exc)
       /\ (exc.status_code = 429 \/ Contains(exc.str, "RESOURCE_EXHAUSTED"))
    THEN Returned(_local_fallback_response(ms), built, net)
    ELSE Raised(exc, built, net)

gemini_except(exc, ms, built, net) ==
    IF IsClientError(exc)
       /\ (exc.status_code = 429 \/ Contains(exc.str, "RESOURCE_EXHAUSTED"))
    THEN Returned(_local_fallback_response(ms), built, net)
    ELSE IF IsClientError(exc)
            /\ (exc.status_code = 404 \/ Contains(exc.str, "NOT_FOUND"))
    THEN Returned(_local_fallback_response(ms), built, net)
    ELSE Raised(exc, built, net)

\* The body after the api_key check.  env.listing is the answer to
\* models.list(), env.resp the answer to generate_content().
gemini_request(api_key, model, ms, temperature, env) ==
    LET prompt == _build_gemini_prompt(ms)
        selected_model == _resolve_model(env.listing, model)
        net == <<Request("models.list", <<>>, 0, <<>>),
                 Request("models.generate_content", selected_model, temperature, prompt)>>
        content == _extract_response_text(env.resp.content)
    IN  IF env.resp.kind = "error"
        THEN gemini_except(env.resp.exc, ms, TRUE, net)
        ELSE Returned(IF content # <<>> THEN content ELSE _local_fallback_response(ms),
                      TRUE, net)

gemini_get_chat_completion(api_key, model, ms, temperature, env) ==
    IF api_key = ""
    THEN Raised(Exc("ValueError", 0, <<"GEMINI_API_KEY is not set.">>), FALSE, <<>>)
    ELSE gemini_request(api_key, model, ms, temperature, env)

----------------------------------------------------------------------------
(* edugenie/chat.py                                                        *)

Greeting ==
    <<"Hi! I am EduGenie. Ask me anything about your studies, topics, or exam preparation.">>

\* initialize_chat_state(), on a session that has no messages yet
initialize_chat_state == <<Msg("assistant", Greeting)>>

\* Faulty variant: the message is put in front of the history.
add_message_front(ms, role, content) == <<Msg(role, content)>> \o ms

add_message(ms, role, content) == Append(ms, Msg(role, content))

clear_chat == <<Msg("assistant", Greeting)>>

----------------------------------------------------------------------------
(* edugenie/topic_tracker.py                                               *)

LowerCase ==
    <<"a", "b", "c", "d", "e", "f", "g", "h", "i", "j", "k", "l", "m",
      "n", "o", "p", "q", "r", "s", "t", "u", "v", "w", "x", "y", "z">>

UpperCase ==
    <<"A", "B", "C", "D", "E", "F", "G", "H", "I", "J", "K", "L", "M",
      "N", "O", "P", "Q", "R", "S", "T", "U", "V", "W", "X", "Y", "Z">>

Digits == {"0", "1", "2", "3", "4", "5", "6", "7", "8", "9"}

STOPWORDS ==
    { <<"a">>, <<"a", "n">>, <<"a", "n", "d">>, <<"a", "r", "e">>, <<"a", "s">>,
      <<"a", "t">>, <<"b", "e">>, <<"b", "y">>, <<"c", "a", "n">>, <<"d", "o">>,
      <<"f", "o", "r">>, <<"f", "r", "o", "m">>, <<"h", "o", "w">>, <<"i">>,
      <<"i", "n">>, <<"i", "s">>, <<"i", "t">>, <<"m", "e">>, <<"m", "y">>,
      <<"o", "f">>, <<"o", "n">>, <<"o", "r">>, <<"p", "l", "e", "a", "s", "e">>,
      <<"s", "h", "o", "u", "l", "d">>, <<"t", "e", "l", "l">>, <<"t", "h", "a", "t">>,
      <<"t", "h", "e">>, <<"t", "h", "i", "s">>, <<"t", "o">>, <<"w", "h", "a", "t">>,
      <<"w", "h", "e", "n">>, <<"w", "h", "e", "r", "e">>, <<"w", "h", "i", "c", "h">>,
      <<"w", "h", "y">>, <<"w", "i", "t", "h">>, <<"y", "o", "u">> }

General == <<"g", "e", "n", "e", "r", "a", "l">>

\* str.lower() on one character
lower(c) ==
    IF \E i \in 1..Len(UpperCase) : UpperCase[i] = c
    THEN LowerCase[CHOOSE i \in 1..Len(UpperCase) : UpperCase[i] = c]
    ELSE c

\* re.sub(r"[^a-zA-Z0-9\s]", " ", user_message.lower())
cleaned(user_message) ==
    [i \in 1..Len(user_message) |->
        LET c == lower(user_message[i])
        IN  IF c \in Range(LowerCase) \cup Range(UpperCase) \cup Digits \cup Whitespace
            THEN c ELSE " "]

\* str.split(): the maximal runs of non-whitespace characters
RECURSIVE split(_, _)
split(s, cur) ==
    IF s = <<>> THEN (IF cur = <<>> THEN <<>> ELSE <<cur>>)
    ELSE IF Head(s) \in Whitespace
    THEN (IF cur = <<>> THEN <<>> ELSE <<cur>>) \o split(Tail(s), <<>>)
    ELSE split(Tail(s), Append(cur, Head(s)))

\* str.isdigit() on a non-empty ASCII token
isdigit(token) == token # <<>> /\ \A i \in 1..Len(token) : token[i] \in Digits

\* Faulty variant: tokens of length 2 are kept (len(token) >= 2).
RECURSIVE filter_tokens_len2(_)
filter_tokens_len2(ts) ==
    IF ts = <<>> THEN <<>>
    ELSE LET token == Head(ts)
         IN  IF token \notin STOPWORDS /\ Len(token) >= 2 /\ ~isdigit(token)
             THEN <<token>> \o filter_tokens_len2(Tail(ts))
             ELSE filter_tokens_len2(Tail(ts))

RECURSIVE filter_tokens(_)
filter_tokens(ts) ==
    IF ts = <<>> THEN <<>>
    ELSE LET token == Head(ts)
         IN  IF token \notin STOPWORDS /\ Len(token) > 2 /\ ~isdigit(token)
             THEN <<token>> \o filter_tokens(Tail(ts))
             ELSE filter_tokens(Tail(ts))

\* A dict in insertion order: a sequence of [topic, count] items.
Keys(d) == {d[i].topic : i \in 1..Len(d)}

Get(d, k) ==
    IF k \in Keys(d) THEN d[CHOOSE i \in 1..Len(d) : d[i].topic = k].count ELSE 0

\* d[k] = d.get(k, 0) + 1: an existing key keeps its place
\* Faulty variant: d[k] = 1, the current count is not read.
increment_topic_count_reset(d, topic) ==
    IF topic \in Keys(d)
    THEN [i \in 1..Len(d) |->
            IF d[i].topic = topic THEN [d[i] EXCEPT !.count = 1] ELSE d[i]]
    ELSE Append(d, [topic |-> topic, count |-> 1])

\* Faulty variant: the sentinel topic is not counted.
increment_topic_count_skip_general(d, topic) ==
    IF topic = General THEN d
    ELSE IF topic \in Keys(d)
    THEN [i \in 1..Len(d) |->
            IF d[i].topic = topic THEN [d[i] EXCEPT !.count = @ + 1] ELSE d[i]]
    ELSE Append(d, [topic |-> topic, count |-> 1])

increment_topic_count(d, topic) ==
    IF topic \in Keys(d)
    THEN [i \in 1..Len(d) |->
            IF d[i].topic = topic THEN [d[i] EXCEPT !.count = @ + 1] ELSE d[i]]
    ELSE Append(d, [topic |-> topic, count |-> 1])

\* Counter(tokens)
RECURSIVE Counter(_)
Counter(ts) ==
    IF ts = <<>> THEN <<>>
    ELSE increment_topic_count(Counter(SubSeq(ts, 1, Len(ts) - 1)), ts[Len(ts)])

\* Faulty variant: the last of the best items wins (>= for >).
RECURSIVE max_item_last(_, _)
max_item_last(items, best) ==
    IF items = <<>> THEN best
    ELSE LET it == Head(items)
             better == \/ it.count > best.count
                       \/ it.count = best.count /\ Len(it.topic) >= Len(best.topic)
         IN  max_item_last(Tail(items), IF better THEN it ELSE best)

\* max(items, key=...): the first item no other item beats
RECURSIVE max_item(_, _)
max_item(items, best) ==
    IF items = <<>> THEN best
    ELSE LET it == Head(items)
             better == \/ it.count > best.count
                       \/ it.count = best.count /\ Len(it.topic) > Len(best.topic)
         IN  max_item(Tail(items), IF better THEN it ELSE best)

extract_topic(user_message) ==
    LET tokens == filter_tokens(split(cleaned(user_message), <<>>))
        counts == Counter(tokens)
    IN  IF tokens = <<>> THEN General
        ELSE max_item(Tail(counts), Head(counts)).topic

initialize_topic_counter == <<>>

\* sorted(items, key=lambda item: item[1], reverse=True): stable, so items
\* of equal count keep their dict order
RECURSIVE insert_desc(_, _)
insert_desc(sorted, it) ==
    IF sorted = <<>> THEN <<it>>
    ELSE IF Head(sorted).count >= it.count
    THEN <<Head(sorted)>> \o insert_desc(Tail(sorted), it)
    ELSE <<it>> \o sorted

RECURSIVE sorted_desc(_)
sorted_desc(items) ==
    IF items = <<>> THEN <<>>
    ELSE insert_desc(sorted_desc(SubSeq(items, 1, Len(items) - 1)), items[Len(items)])

\* seq[:limit]
slice_to(s, limit) ==
    IF limit >= 0
    THEN SubSeq(s, 1, IF limit < Len(s) THEN limit ELSE Len(s))
    ELSE SubSeq(s, 1, Len(s) + limit)

RECURSIVE reversed(_)
reversed(s) == IF s = <<>> THEN <<>> ELSE Append(reversed(Tail(s)), Head(s))

\* Faulty variant: sorted(items, key=...)[::-1][:limit], ties come out in reverse.
top_topics_unstable(d, limit) == slice_to(sorted_desc(reversed(d)), limit)

top_topics(d, limit) == slice_to(sorted_desc(d), limit)

----------------------------------------------------------------------------
(* edugenie/features.py                                                    *)

Persona ==
    <<"You are EduGenie, an academic AI assistant. Provide well-structured, accurate, student-friendly responses.">>

quiz_prompt(topic) ==
    <<"\n", "Create a student-friendly quiz on: \"">> \o topic \o
    <<"\".", "\n", "\n",
      "Requirements:", "\n",
      "- Exactly 5 multiple-choice questions.", "\n",
      "- Each question must have 4 options (A, B, C, D).", "\n",
      "- Keep difficulty moderate for students.", "\n",
      "- After all questions, add a separate \"Answer Key\" section.", "\n",
      "- The answer key must list only question number and correct option letter.", "\n">>

summary_prompt(topic) ==
    <<"\n", "Summarize this topic for a student audience: \"">> \o topic \o
    <<"\".", "\n", "\n",
      "Requirements:", "\n",
      "- Use concise bullet points.", "\n",
      "- Include key concepts and definitions.", "\n",
      "- Add a short \"Why this matters\" section.", "\n",
      "- Keep language simple and exam-oriented.", "\n">>

study_plan_prompt(topic) ==
    <<"\n", "Create a 7-day study plan for: \"">> \o topic \o
    <<"\".", "\n", "\n",
      "Requirements:", "\n",
      "- Provide Day 1 to Day 7 clearly.", "\n",
      "- Include daily goals and suggested practice tasks.", "\n",
      "- Include one revision strategy section for retention.", "\n",
      "- Keep it realistic for students with limited time.", "\n">>

\* The message list _run_feature_prompt hands to the client.
feature_messages(prompt) == <<Msg("system", Persona), Msg("user", prompt)>>

\* temperature=0.3, in tenths
_run_feature_prompt(prompt, api_key, model, resp) ==
    openrouter_get_chat_completion(api_key, model, feature_messages(prompt), 3, resp)

----------------------------------------------------------------------------
(* app.py                                                                  *)

\* The most recent user message with non-blank content, stripped; <<>> is None.
RECURSIVE get_last_user_message(_)
get_last_user_message(ms) ==
    IF ms = <<>> THEN <<>>
    ELSE LET last == ms[Len(ms)]
         IN  IF last.role = "user" /\ strip(last.content) # <<>>
             THEN strip(last.content)
             ELSE get_last_user_message(SubSeq(ms, 1, Len(ms) - 1))

Tools == {"quiz", "summary", "study_plan"}

tool_prompt(tool_name, topic) ==
    CASE tool_name = "quiz" -> quiz_prompt(topic)
      [] tool_name = "summary" -> summary_prompt(topic)
      [] OTHER -> study_plan_prompt(topic)

run_smart_tool(tool_name, topic, api_key, model, resp) ==
    IF tool_name \in Tools
    THEN _run_feature_prompt(tool_prompt(tool_name, topic), api_key, model, resp)
    ELSE Returned(<<"Unsupported smart tool requested.">>, FALSE, <<>>)

SystemSimple ==
    <<"Explain concepts in very simple language, using analogies and real-life examples suitable for a",
      " ", "10-year-old", ".">>

SystemNormal ==
    <<"Provide clear, student-friendly academic explanations with accurate and structured reasoning.">>

system_instruction(explain) == IF explain THEN SystemSimple ELSE SystemNormal

\* Faulty variant: the system instruction is left out.
build_chat_messages_no_system(ms, explain) == ms

build_chat_messages(ms, explain) ==
    <<Msg("system", system_instruction(explain))>> \o ms

NoTopicText ==
    <<"Please send at least one message first.", " ",
      "Smart Tools use your latest question/topic.">>

\* except ValueError / except Exception around run_smart_tool
tool_output(res) ==
    IF res.outcome = "return" THEN res.text
    ELSE IF IsValueError(res.exc)
    THEN <<"Configuration error:", " ">> \o res.exc.str
    ELSE <<"Smart tool request failed.", " ", "Details:", " ">> \o res.exc.str

\* except ValueError / except Exception around get_chat_completion
chat_answer(res) ==
    IF res.outcome = "return" THEN res.text
    ELSE IF IsValueError(res.exc)
    THEN <<"Configuration error:", " ">> \o res.exc.str
    ELSE <<"Something went wrong while contacting the AI service.", " ",
           "Details:", " ">> \o res.exc.str

----------------------------------------------------------------------------
(* Bounds and inputs.                                                      *)

MaxMessages == 4     \* the session holds at most this many messages
MaxPrompts == 2      \* chat prompts per session
MaxIncrements == 5   \* increment_topic_count calls in SpecTracker
MaxLimit == 4        \* top_topics limits 0..MaxLimit

\* Provider answers of the OpenAI SDK call (openrouter_client.py).
OpenAIErrors ==
    { Exc("APIStatusError", 402, <<"Error code: 402 - insufficient credits">>),
      Exc("APIStatusError", 429, <<"Error code: 429 - rate limited">>),
      Exc("APIStatusError", 404, <<"Error code: 404 - no endpoints found for model">>),
      Exc("APIStatusError", 500, <<"Error code: 500 - internal error">>),
      Exc("APIStatusError", 503, <<"Error code: 503 -", " ", "RESOURCE_EXHAUSTED">>),
      Exc("APIConnectionError", 0, <<"Connection error.">>),
      Exc("JSONDecodeError", 0, <<"Expecting value: line 1 column 1 (char 0)">>) }

\* Provider answers of the google-genai SDK call (openai_client.py).
GenaiErrors ==
    { Exc("ClientError", 429, <<"429", " ", "RESOURCE_EXHAUSTED", ". quota exceeded">>),
      Exc("ClientError", 429, <<"429 too many requests">>),
      Exc("ClientError", 0, <<"429", " ", "RESOURCE_EXHAUSTED", ". quota exceeded">>),
      Exc("ClientError", 402, <<"402 payment required">>),
      Exc("ClientError", 404, <<"404 model is not found">>),
      Exc("ClientError", 0, <<"404", " ", "NOT_FOUND", ". model is not found">>),
      Exc("ClientError", 400, <<"400 INVALID_ARGUMENT">>),
      Exc("ServerError", 500, <<"500 INTERNAL">>),
      Exc("ConnectError", 0, <<"Connection refused">>) }

Contents ==
    { <<>>,
      <<"Photosynthesis turns light into sugar.">>,
      <<" ", "An answer with blanks around it.", "\n">>,
      <<" ", "\n">> }

OpenRouterResponses ==
    {RespOk(c) : c \in Contents} \cup {RespNoChoices} \cup {RespError(e) : e \in OpenAIErrors}

GeminiResponses ==
    {RespOk(c) : c \in Contents} \cup {RespError(e) : e \in GenaiErrors}

ModelObj(name, actions) == [name |-> name, supported_actions |-> actions]

ListedModels ==
    { ModelObj(<<"models/", "gemini-2.0-flash">>, {"generateContent"}),
      ModelObj(<<"models/", "gemini-pro-latest">>, {"generateContent", "countTokens"}),
      ModelObj(<<"models/", "gemini-2.5-flash">>, {"embedContent"}),
      ModelObj(<<"gemini-1.5-flash">>, {"generateContent"}) }

Listings ==
    {[ok |-> FALSE, models |-> {}]} \cup {[ok |-> TRUE, models |-> S] : S \in SUBSET ListedModels}

NoEnv == [listing |-> [ok |-> FALSE, models |-> {}], resp |-> RespOk(<<>>)]

ApiKeys == {"", "sk-test-key"}

ModelNames == { <<"openrouter/free">>, <<"gemini-1.5-flash">>, <<"gemini-2.5-flash">> }

Prompts ==
    { <<"t", "h", "e", " ", "C", "a", "t">>,
      <<"D", "o", "g", " ", "4", "2", "?">>,
      <<"i", "s", " ", "i", "t">> }

\* Message lists for direct calls of the clients.
MessageLists ==
    { <<>>,
      <<Msg("system", SystemNormal), Msg("assistant", Greeting)>>,
      <<Msg("system", SystemNormal), Msg("assistant", Greeting),
        Msg("user", <<"t", "h", "e", " ", "C", "a", "t">>)>>,
      <<Msg("system", SystemSimple), Msg("assistant", Greeting),
        Msg("user", <<" ", "D", "o", "g", " ">>)>>,
      <<Msg("system", Persona), Msg("user", quiz_prompt(<<"D", "o", "g">>))>> }

Temperatures == {2, 3}   \* 0.2 and 0.3, in tenths

Topics ==
    { <<"a", "l", "g", "e", "b", "r", "a">>,
      <<"g", "e", "o", "m", "e", "t", "r", "y">>,
      <<"x", "y", "z">>,
      General }

----------------------------------------------------------------------------
(* State.                                                                  *)

NoCall ==
    [provider |-> "none", api_key |-> "", model |-> <<>>, messages |-> <<>>,
     temperature |-> 0, env |-> NoEnv]

NoResult ==
    [outcome |-> "none", text |-> <<>>, exc |-> NoExc, built |-> FALSE, net |-> <<>>]

Run(kind, tool, prompt, before, calls) ==
    [kind |-> kind, tool |-> tool, prompt |-> prompt, before |-> before, calls |-> calls]

RECURSIVE TotalCount(_)
TotalCount(d) == IF d = <<>> THEN 0 ELSE Head(d).count + TotalCount(Tail(d))

\* main(), first run of a session: initialize_chat_state, initialize_topic_counter
Init ==
    /\ messages = initialize_chat_state
    /\ topic_counter = initialize_topic_counter
    /\ explain_like_10 = FALSE
    /\ settings \in {[api_key |-> k, model |-> <<"openrouter/free">>] : k \in ApiKeys}
    /\ run = Run("init", "", <<>>, 0, 0)
    /\ call = NoCall
    /\ result = NoResult

\* main() with a submitted chat prompt
ChatTurn(prompt, resp) ==
    /\ Len(messages) + 2 <= MaxMessages
    /\ TotalCount(topic_counter) < MaxPrompts
    /\ LET topic == extract_topic(prompt)
           ms1 == add_message(messages, "user", prompt)
           handed == build_chat_messages(ms1, explain_like_10)
           res == openrouter_get_chat_completion(
                      settings.api_key, settings.model, handed, 2, resp)
       IN  /\ topic_counter' = increment_topic_count(topic_counter, topic)
           /\ messages' = add_message(ms1, "assistant", chat_answer(res))
           /\ call' = [provider |-> "openrouter", api_key |-> settings.api_key,
                       model |-> settings.model, messages |-> handed,
                       temperature |-> 2, env |-> [NoEnv EXCEPT !.resp = resp]]
           /\ result' = res
           /\ run' = Run("chat", "", prompt, Len(messages), 1)
    /\ UNCHANGED <<explain_like_10, settings>>

\* main() with a smart-tool button clicked
SmartTool(tool_name, resp) ==
    /\ Len(messages) + 1 <= MaxMessages
    /\ LET topic == get_last_user_message(messages)
           res == run_smart_tool(tool_name, topic, settings.api_key, settings.model, resp)
       IN  IF topic = <<>>
           THEN /\ messages' = add_message(messages, "assistant", NoTopicText)
                /\ call' = NoCall
                /\ result' = NoResult
                /\ run' = Run("tool", tool_name, <<>>, Len(messages), 0)
           ELSE /\ messages' = add_message(messages, "assistant", tool_output(res))
                /\ call' = [provider |-> "openrouter", api_key |-> settings.api_key,
                            model |-> settings.model,
                            messages |-> feature_messages(tool_prompt(tool_name, topic)),
                            temperature |-> 3, env |-> [NoEnv EXCEPT !.resp = resp]]
                /\ result' = res
                /\ run' = Run("tool", tool_name, topic, Len(messages), 1)
    /\ UNCHANGED <<topic_counter, explain_like_10, settings>>

\* render_sidebar(): the Clear Chat button, then st.rerun()
ClearChat ==
    /\ messages' = clear_chat
    /\ call' = NoCall
    /\ result' = NoResult
    /\ run' = Run("clear", "", <<>>, Len(messages), 0)
    /\ UNCHANGED <<topic_counter, explain_like_10, settings>>

\* render_sidebar(): the "Explain Like I'm 10" checkbox
ToggleExplain ==
    /\ explain_like_10' = ~explain_like_10
    /\ call' = NoCall
    /\ result' = NoResult
    /\ run' = Run("toggle", "", <<>>, Len(messages), 0)
    /\ UNCHANGED <<messages, topic_counter, settings>>

AppResponses ==
    { RespOk(<<"Photosynthesis turns light into sugar.">>),
      RespOk(<<>>),
      RespError(Exc("APIStatusError", 429, <<"Error code: 429 - rate limited">>)),
      RespError(Exc("APIStatusError", 500, <<"Error code: 500 - internal error">>)),
      RespError(Exc("JSONDecodeError", 0, <<"Expecting value: line 1 column 1 (char 0)">>)) }

Next ==
    \/ \E prompt \in Prompts, resp \in AppResponses : ChatTurn(prompt, resp)
    \/ \E tool_name \in Tools, resp \in AppResponses : SmartTool(tool_name, resp)
    \/ ClearChat
    \/ ToggleExplain

Spec == Init /\ [][Next]_vars

----------------------------------------------------------------------------
(* SpecClient: get_chat_completion of either module, called directly.      *)

ClientCall(provider, api_key, model, ms, temperature, env) ==
    [provider |-> provider, api_key |-> api_key, model |-> model,
     messages |-> ms, temperature |-> temperature, env |-> env]

\* The arguments and the provider's answers of one direct call.
ClientCalls ==
    {ClientCall("openrouter", k, m, ms, t, [NoEnv EXCEPT !.resp = r]) :
        k \in ApiKeys, m \in ModelNames, ms \in MessageLists,
        t \in Temperatures, r \in OpenRouterResponses}
    \cup
    {ClientCall("gemini", k, m, ms, t, [listing |-> l, resp |-> r]) :
        k \in ApiKeys, m \in ModelNames, ms \in MessageLists,
        t \in Temperatures, l \in Listings, r \in GeminiResponses}

InitClient ==
    /\ messages = initialize_chat_state
    /\ topic_counter = initialize_topic_counter
    /\ explain_like_10 = FALSE
    /\ settings = [api_key |-> "", model |-> <<"openrouter/free">>]
    /\ run = Run("init", "", <<>>, 0, 0)
    /\ call \in ClientCalls
    /\ result = NoResult

CallOpenRouter ==
    /\ call.provider = "openrouter"
    /\ result = NoResult
    /\ result' = openrouter_get_chat_completion(
                     call.api_key, call.model, call.messages, call.temperature,
                     call.env.resp)
    /\ UNCHANGED <<messages, topic_counter, explain_like_10, settings, run, call>>

CallGemini ==
    /\ call.provider = "gemini"
    /\ result = NoResult
    /\ result' = gemini_get_chat_completion(
                     call.api_key, call.model, call.messages, call.temperature,
                     call.env)
    /\ UNCHANGED <<messages, topic_counter, explain_like_10, settings, run, call>>

NextClient == CallOpenRouter \/ CallGemini

SpecClient == InitClient /\ [][NextClient]_vars

----------------------------------------------------------------------------
(* SpecTracker: the topic tracker under any sequence of increments.        *)

InitTracker ==
    /\ messages = initialize_chat_state
    /\ topic_counter = initialize_topic_counter
    /\ explain_like_10 = FALSE
    /\ settings = [api_key |-> "", model |-> <<"openrouter/free">>]
    /\ run = Run("init", "", <<>>, 0, 0)
    /\ call = NoCall
    /\ result = NoResult

Increment(topic) ==
    /\ TotalCount(topic_counter) < MaxIncrements
    /\ topic_counter' = increment_topic_count(topic_counter, topic)
    /\ UNCHANGED <<messages, explain_like_10, settings, run, call, result>>

NextTracker == \E topic \in Topics : Increment(topic)

SpecTracker == InitTracker /\ [][NextTracker]_vars

----------------------------------------------------------------------------
(* Claims about get_chat_completion (SpecClient).                          *)

Called == result.outcome # "none"

CompletionOps == {"chat.completions.create", "models.generate_content"}

CompletionRequests(net) == Cardinality({i \in 1..Len(net) : net[i].op \in CompletionOps})

\* The completion request was issued and the provider answered it with an error.
RequestFailed == Called /\ call.api_key # "" /\ call.env.resp.kind = "error"

Failure == call.env.resp.exc

QuotaCondition(exc) ==
    exc.status_code \in {402, 429} \/ Contains(exc.str, "RESOURCE_EXHAUSTED")

ModelNotFound(exc) ==
    exc.status_code = 404 \/ Contains(exc.str, "NOT_FOUND")

\* The failed completion request is the last request of the call.
NoRequestAfterFailure ==
    /\ result.net # <<>>
    /\ result.net[Len(result.net)].op \in CompletionOps
    /\ CompletionRequests(result.net) = 1

LocalFallback ==
    IF call.provider = "openrouter"
    THEN OpenRouterQuotaNotice
    ELSE _local_fallback_response(call.messages)

\* C1: with an empty api_key, whatever the model, the messages and the
\* temperature, get_chat_completion raises the ValueError of the missing key
\* and has built no client and issued no request.
C1_EmptyKeyFails ==
    (Called /\ call.api_key = "") =>
        /\ result.outcome = "raise"
        /\ result.exc.cls = "ValueError"
        /\ result.exc.str \in {<<"OPENROUTER_API_KEY is not set.">>,
                               <<"GEMINI_API_KEY is not set.">>}
        /\ ~result.built
        /\ result.net = <<>>

C1_Witness ==
    /\ Called
    /\ call.api_key = ""
    /\ call.provider = "openrouter"
    /\ call.messages # <<>>
    /\ call.env.resp.kind = "ok"
    /\ result.outcome = "raise"

\* C2 as stated: a 402, a 429 or a RESOURCE_EXHAUSTED error of the completion
\* request makes get_chat_completion return its local fallback text, with no
\* request after the failed one.
C2_QuotaAlwaysFallsBack ==
    (RequestFailed /\ QuotaCondition(Failure)) =>
        /\ result.outcome = "return"
        /\ result.text = LocalFallback
        /\ NoRequestAfterFailure

OpenRouterQuota(exc) == IsAPIStatusError(exc) /\ exc.status_code \in {402, 429}

GeminiQuota(exc) ==
    IsClientError(exc)
    /\ (exc.status_code = 429 \/ Contains(exc.str, "RESOURCE_EXHAUSTED"))

\* C2 amended: the OpenRouter client falls back on an APIStatusError of status
\* 402 or 429, the Gemini client on a ClientError of status 429 or one whose
\* text holds RESOURCE_EXHAUSTED; either then returns its local fallback text
\* and issues no further request.  The other quota conditions (a 402 at the
\* Gemini client, RESOURCE_EXHAUSTED under another status at the OpenRouter
\* client) are raised unchanged.
C2_QuotaFallsBackPerClient ==
    RequestFailed =>
        /\ (call.provider = "openrouter" /\ OpenRouterQuota(Failure)) =>
              /\ result.outcome = "return"
              /\ result.text = OpenRouterQuotaNotice
              /\ NoRequestAfterFailure
        /\ (call.provider = "gemini" /\ GeminiQuota(Failure)) =>
              /\ result.outcome = "return"
              /\ result.text = _local_fallback_response(call.messages)
              /\ NoRequestAfterFailure
        /\ (/\ QuotaCondition(Failure)
            /\ ~(call.provider = "openrouter" /\ OpenRouterQuota(Failure))
            /\ ~(call.provider = "gemini" /\ GeminiQuota(Failure))) =>
              /\ result.outcome = "raise"
              /\ result.exc = Failure

C2_Witness ==
    /\ RequestFailed
    /\ call.provider = "openrouter"
    /\ Failure.status_code = 429
    /\ result.outcome = "return"
    /\ result.text = OpenRouterQuotaNotice

\* C3 as stated: a "model not found" answer to the completion request never
\* surfaces as an error of get_chat_completion.
C3_NotFoundNeverRaised ==
    (RequestFailed /\ ModelNotFound(Failure)) =>
        /\ result.outcome = "return"
        /\ result.text = LocalFallback

\* The models the listing offers for generateContent, as _resolve_model reads it.
Available ==
    {removeprefix(m.name) : m \in
        {x \in call.env.listing.models : "generateContent" \in x.supported_actions}}

SentModel == result.net[Len(result.net)].model

\* C3 amended: the Gemini client returns the local fallback text on a
\* ClientError of status 404 or with NOT_FOUND in its text, and sends its
\* request with the requested model when the listing offers it (or fails, or
\* offers no preferred model) and otherwise with the first preferred model the
\* listing offers.  The OpenRouter client raises the 404 unchanged.
C3_NotFoundPerClient ==
    /\ (call.provider = "gemini" /\ RequestFailed
        /\ IsClientError(Failure) /\ ModelNotFound(Failure)) =>
          /\ result.outcome = "return"
          /\ result.text = _local_fallback_response(call.messages)
    /\ (call.provider = "gemini" /\ Called /\ call.api_key # "") =>
          /\ SentModel \in {call.model} \cup Range(preferred)
          /\ (call.env.listing.ok /\ call.model \in Available) => SentModel = call.model
          /\ (call.env.listing.ok /\ call.model \notin Available
              /\ Available \cap Range(preferred) # {}) =>
                \E i \in 1..Len(preferred) :
                    /\ SentModel = preferred[i]
                    /\ preferred[i] \in Available
                    /\ \A j \in 1..(i - 1) : preferred[j] \notin Available
          /\ (~call.env.listing.ok \/ (Available \cap Range(preferred) = {})) =>
                SentModel = call.model
    /\ (call.provider = "openrouter" /\ RequestFailed
        /\ ModelNotFound(Failure) /\ ~OpenRouterQuota(Failure)) =>
          /\ result.outcome = "raise"
          /\ result.exc = Failure

C3_Witness ==
    /\ RequestFailed
    /\ call.provider = "gemini"
    /\ Failure.status_code = 404
    /\ call.env.listing.ok
    /\ call.model \notin Available
    /\ SentModel = <<"gemini-2.0-flash">>
    /\ result.outcome = "return"

\* C4: an error of the completion request that is neither a quota or
\* rate-limit condition nor a model-not-found condition leaves
\* get_chat_completion as that same exception.
C4_OtherErrorsPropagate ==
    (RequestFailed /\ ~QuotaCondition(Failure) /\ ~ModelNotFound(Failure)) =>
        /\ result.outcome = "raise"
        /\ result.exc = Failure

C4_Witness ==
    /\ RequestFailed
    /\ call.provider = "openrouter"
    /\ IsAPIStatusError(Failure)
    /\ Failure.status_code = 500
    /\ result.outcome = "raise"
    /\ result.exc = Failure

Succeeded == Called /\ call.api_key # "" /\ call.env.resp.kind = "ok"

\* C5 as stated: a successful response is returned as its content, unmodified,
\* when that is non-empty, and as the "could not generate" message when it is
\* empty.
C5_ContentUnmodified ==
    Succeeded =>
        /\ result.outcome = "return"
        /\ result.text # <<>>
        /\ call.env.resp.content # <<>> => result.text = call.env.resp.content
        /\ call.env.resp.content = <<>> => result.text = CouldNotGenerate

\* C5 amended: the OpenRouter client returns non-empty content unmodified and
\* the "could not generate" message for empty content.  The Gemini client
\* returns the content stripped of surrounding whitespace, and its local
\* fallback text when nothing is left.  Neither returns an empty string.
C5_ContentPerClient ==
    Succeeded =>
        /\ result.outcome = "return"
        /\ result.text # <<>>
        /\ call.provider = "openrouter" =>
              /\ call.env.resp.content # <<>> => result.text = call.env.resp.content
              /\ call.env.resp.content = <<>> => result.text = CouldNotGenerate
        /\ call.provider = "gemini" =>
              /\ strip(call.env.resp.content) # <<>> =>
                    result.text = strip(call.env.resp.content)
              /\ strip(call.env.resp.content) = <<>> =>
                    result.text = _local_fallback_response(call.messages)

C5_Witness ==
    /\ Succeeded
    /\ call.provider = "gemini"
    /\ call.env.resp.content # <<>>
    /\ result.text # call.env.resp.content
    /\ result.text = strip(call.env.resp.content)

----------------------------------------------------------------------------
(* Claims about the orchestrator and the session (Spec).                   *)

Seed == Msg("assistant", Greeting)

\* The messages the last script run appended to the session.
Appended == SubSeq(messages, run.before + 1, Len(messages))

\* C6: every message list handed to get_chat_completion starts with its only
\* system message; in the chat flow the session history follows, whole and in
\* order, ending with the prompt just submitted; in the smart-tool flow one
\* user message follows.  A request that goes out carries that same list.
C6_OneLeadingSystemMessage ==
    run.calls = 1 =>
        LET handed == call.messages
        IN  /\ Len(handed) >= 2
            /\ handed[1].role = "system"
            /\ \A i \in 2..Len(handed) : handed[i].role # "system"
            /\ \A i \in 1..Len(result.net) : result.net[i].payload = handed
            /\ run.kind = "chat" =>
                  /\ Tail(handed) = SubSeq(messages, 1, Len(messages) - 1)
                  /\ handed[Len(handed)] = Msg("user", run.prompt)
            /\ run.kind = "tool" =>
                  /\ Len(handed) = 2
                  /\ handed[2].role = "user"

C6_Witness ==
    /\ run.kind = "chat"
    /\ run.calls = 1
    /\ run.before = 2
    /\ explain_like_10
    /\ Len(call.messages) = 4
    /\ call.messages[1] = Msg("system", SystemSimple)
    /\ call.messages[3].role = "assistant"

\* C7: the session always starts with the seed greeting; clear_chat leaves
\* the seed alone; every other run only appends to the session.
C7_SeededAppendOnly ==
    /\ messages # <<>> /\ messages[1] = Seed
    /\ [][/\ messages' # <<>>
          /\ messages'[1] = Seed
          /\ run'.kind = "clear" => messages' = <<Seed>>
          /\ run'.kind # "clear" =>
                /\ Len(messages') >= Len(messages)
                /\ SubSeq(messages', 1, Len(messages)) = messages]_vars

C7_Witness ==
    /\ run.kind = "clear"
    /\ run.before = MaxMessages
    /\ messages = <<Seed>>
    /\ topic_counter # <<>>

\* C8: a script run calls get_chat_completion at most once and that call
\* issues at most one completion request, also when the request fails; a
\* run without a prompt or tool click issues none.
C8_AtMostOneRequest ==
    /\ run.calls <= 1
    /\ CompletionRequests(result.net) <= run.calls
    /\ run.kind \notin {"chat", "tool"} => run.calls = 0

C8_Witness ==
    /\ run.kind = "tool"
    /\ run.calls = 1
    /\ result.outcome = "raise"
    /\ call.env.resp.kind = "error"
    /\ CompletionRequests(result.net) = 1

GenericFailure ==
    IF run.kind = "chat"
    THEN <<"Something went wrong while contacting the AI service.", " ", "Details:", " ">>
    ELSE <<"Smart tool request failed.", " ", "Details:", " ">>

\* C9: a run whose completion call raises appends exactly one assistant
\* message: the configuration text with the error's message when the API key
\* is missing, the service-failed text with the error's detail otherwise.
C9_FailureShownByCause ==
    (run.kind \in {"chat", "tool"} /\ result.outcome = "raise") =>
        LET assistants == {i \in 1..Len(Appended) : Appended[i].role = "assistant"}
        IN  /\ Cardinality(assistants) = 1
            /\ \A i \in assistants :
                  Appended[i].content =
                      IF settings.api_key = ""
                      THEN <<"Configuration error:", " ">> \o result.exc.str
                      ELSE GenericFailure \o result.exc.str

----------------------------------------------------------------------------
(* Claims about the topic tracker (SpecTracker).                           *)

Position(d, topic) == CHOOSE i \in 1..Len(d) : d[i].topic = topic

Min(a, b) == IF a < b THEN a ELSE b

\* C10: for every limit >= 0, top_topics(limit) holds min(limit, number of
\* topics) items of the counter, counts non-increasing, equal counts in
\* first-insertion order, no left-out topic counted higher than a listed one;
\* so a topic with the strictly highest count is first.
C10_TopTopicsRanked ==
    \A limit \in 0..MaxLimit :
        LET d == topic_counter
            top == top_topics(d, limit)
        IN  /\ Len(top) = Min(limit, Len(d))
            /\ \A i \in 1..Len(top) : top[i] \in Range(d)
            /\ \A i, j \in 1..Len(top) :
                  i < j =>
                    /\ top[i].count >= top[j].count
                    /\ top[i].topic # top[j].topic
                    /\ top[i].count = top[j].count =>
                          Position(d, top[i].topic) < Position(d, top[j].topic)
            /\ \A k \in 1..Len(d) :
                  (d[k] \notin Range(top)) =>
                      \A i \in 1..Len(top) :
                          \/ top[i].count > d[k].count
                          \/ /\ top[i].count = d[k].count
                             /\ Position(d, top[i].topic) < k
            /\ \A k \in 1..Len(d) :
                  (limit >= 1 /\ \A m \in 1..Len(d) : m # k => d[m].count < d[k].count)
                      => top[1] = d[k]

C10_Witness ==
    /\ Len(topic_counter) = 3
    /\ topic_counter[1].count = topic_counter[2].count
    /\ topic_counter[3].count > topic_counter[1].count
    /\ top_topics(topic_counter, 2) = <<topic_counter[3], topic_counter[1]>>

----------------------------------------------------------------------------
(* Claims about the topic counts of a session (Spec).                      *)

\* C11: the increment of a chat turn raises the count of the prompt's topic
\* by exactly 1 (from 0 to 1 when the topic was absent) and leaves every
\* other count as it was; no step of the session lowers a count or removes
\* a topic.
C11_IncrementByOne ==
    [][/\ \A t \in Keys(topic_counter) :
             /\ t \in Keys(topic_counter')
             /\ Get(topic_counter', t) >= Get(topic_counter, t)
       /\ run'.kind = "chat" =>
             LET topic == extract_topic(run'.prompt)
             IN  /\ Get(topic_counter', topic) = Get(topic_counter, topic) + 1
                 /\ \A t \in Keys(topic_counter') \ {topic} :
                        Get(topic_counter', t) = Get(topic_counter, t)
                 /\ \A i, j \in 1..Len(topic_counter') :
                        topic_counter'[i].topic = topic_counter'[j].topic => i = j
       /\ run'.kind # "chat" => topic_counter' = topic_counter]_vars

C11_Witness ==
    /\ run.kind = "chat"
    /\ run.before = 1
    /\ Len(topic_counter) = 1
    /\ topic_counter[1].count = 2
    /\ topic_counter[1].topic = extract_topic(run.prompt)

\* The user messages left in the chat history.
UserMessages == {i \in 1..Len(messages) : messages[i].role = "user"}

\* C14: the topic counts of a session sum to the number of chat prompts
\* submitted since its creation: the sum is 0 at creation, every chat prompt
\* raises it by exactly 1 whether or not its completion succeeds, and
\* clear_chat, the smart tools and the toggle leave every count as it was.
C14_CountsSumToPrompts ==
    /\ TotalCount(topic_counter) = 0
    /\ [][/\ run'.kind = "chat" =>
                TotalCount(topic_counter') = TotalCount(topic_counter) + 1
          /\ run'.kind # "chat" => topic_counter' = topic_counter]_vars

\* A prompt submitted after a reset is counted although its completion
\* failed, and the counts exceed the user messages left in the history.
C14_Witness ==
    /\ run.kind = "chat"
    /\ result.outcome = "raise"
    /\ TotalCount(topic_counter) = 2
    /\ Cardinality(UserMessages) = 1

----------------------------------------------------------------------------
(* SpecTopic: extract_topic and the increment that follows it, on a fresh  *)
(* session, for every message built from the vocabulary.                   *)

MaxWords == 3        \* words per message in SpecTopic

Vocabulary ==
    { <<"t", "h", "e">>,
      <<"C", "a", "t">>,
      <<"c", "a", "t">>,
      <<"d", "o", "g">>,
      <<"b", "i", "r", "d">>,
      <<"o", "x">>,
      <<"1", "2", "3">>,
      <<"o", "-", "d", "o", "g">>,
      General }

Separators == { <<" ">>, <<"?", "\n">> }

TopicInputs ==
    {join(sep, ws) :
        sep \in Separators,
        ws \in UNION {[1..n -> Vocabulary] : n \in 0..MaxWords}}

InitTopic ==
    /\ messages = initialize_chat_state
    /\ topic_counter = initialize_topic_counter
    /\ explain_like_10 = FALSE
    /\ settings = [api_key |-> "", model |-> <<"openrouter/free">>]
    /\ run \in {Run("prompt", "", m, 1, 0) : m \in TopicInputs}
    /\ call = NoCall
    /\ result = NoResult

\* topic = extract_topic(prompt); increment_topic_count(topic)
TrackTopic ==
    /\ run.kind = "prompt"
    /\ topic_counter' = increment_topic_count(topic_counter, extract_topic(run.prompt))
    /\ run' = [run EXCEPT !.kind = "tracked"]
    /\ UNCHANGED <<messages, explain_like_10, settings, call, result>>

NextTopic == TrackTopic

SpecTopic == InitTopic /\ [][NextTopic]_vars

----------------------------------------------------------------------------
(* Claims about extract_topic (SpecTopic).                                 *)

Tracked == run.kind = "tracked"

\* The topic extract_topic gave for run.prompt.
Extracted == topic_counter[1].topic

\* The whitespace-separated tokens of the lower-cased, cleaned message.
RawTokens == split(cleaned(run.prompt), <<>>)

Survives(token) ==
    /\ token \notin STOPWORDS
    /\ Len(token) > 2
    /\ \E i \in 1..Len(token) : token[i] \notin Digits

Survivors == {t \in Range(RawTokens) : Survives(t)}

LowerAlnum(token) ==
    \A i \in 1..Len(token) : token[i] \in Range(LowerCase) \cup Digits

\* C12 as stated: the result is non-empty; it is "general" exactly when no
\* token survives the filter, and otherwise a surviving token of the message.
C12_SentinelIffNoToken ==
    Tracked =>
        /\ Extracted # <<>>
        /\ (Extracted = General) <=> (Survivors = {})
        /\ Survivors # {} => (Extracted \in Survivors /\ LowerAlnum(Extracted))

\* C12 amended: the result is non-empty; it is "general" whenever no token
\* survives the filter, and otherwise it is one of the message's own tokens,
\* lower-case alphanumeric, no stopword, longer than 2 and not all digits
\* (which is again "general" when that word is the winning token).
C12_SentinelOrSurvivor ==
    Tracked =>
        /\ Extracted # <<>>
        /\ Len(topic_counter) = 1
        /\ Survivors = {} => Extracted = General
        /\ Survivors # {} =>
              /\ Extracted \in Range(RawTokens)
              /\ LowerAlnum(Extracted)
              /\ Extracted \notin STOPWORDS
              /\ Len(Extracted) > 2
              /\ \E i \in 1..Len(Extracted) : Extracted[i] \notin Digits

C12_Witness ==
    /\ Tracked
    /\ Len(RawTokens) = 3
    /\ Survivors = {}
    /\ Extracted = General

Frequency(token) == Cardinality({i \in 1..Len(RawTokens) : RawTokens[i] = token})

FirstAt(token) ==
    CHOOSE i \in 1..Len(RawTokens) :
        RawTokens[i] = token /\ \A j \in 1..(i - 1) : RawTokens[j] # token

\* C13: when a token survives, the result is the surviving token of highest
\* frequency in the message, among those the longest, among those the one
\* that occurs first.
C13_FrequencyLengthFirst ==
    (Tracked /\ Survivors # {}) =>
        /\ Extracted \in Survivors
        /\ \A t \in Survivors \ {Extracted} :
              \/ Frequency(Extracted) > Frequency(t)
              \/ /\ Frequency(Extracted) = Frequency(t)
                 /\ Len(Extracted) > Len(t)
              \/ /\ Frequency(Extracted) = Frequency(t)
                 /\ Len(Extracted) = Len(t)
                 /\ FirstAt(Extracted) < FirstAt(t)

C13_Witness ==
    /\ Tracked
    /\ Len(RawTokens) = 3
    /\ \E t \in Survivors \ {Extracted} :
          /\ Frequency(t) = Frequency(Extracted)
          /\ Len(t) = Len(Extracted)
          /\ FirstAt(Extracted) < FirstAt(t)

====
